---------------------------- MODULE Spec2Model ----------------------------
(***************************************************************************)
(* Log-triage pipeline: the command-line agent (src/agents/log_analyzer.py)*)
(* and the graph pipeline (src/graph/log_analyzer/nodes.py), with the       *)
(* ticket, notification and daily-dedupe integrations they call.            *)
(*                                                                          *)
(* Text is modelled as a sequence of one-character strings.                  *)
(* The text-generation reply is a tagged value: a transport failure, text   *)
(* that json.loads rejects, JSON that is not an object, or a JSON object.   *)
(* The fields of a JSON object reply have the types the code reads them as  *)
(* (counts are integers, groups a list of objects).  The tracker answers a  *)
(* create_issue call with an issue key or the call raises.  The dedupe      *)
(* cache file is readable, writable and valid JSON (only mark_today writes  *)
(* it).                                                                     *)
(***************************************************************************)
EXTENDS Integers, Sequences, FiniteSets, TLC

(***************************************************************************)
(* Bounds of the model.                                                     *)
(***************************************************************************)
\* longest input (number of log lines read in one run)
MaxLines == 3

(***************************************************************************)
(* Program constants.                                                       *)
(***************************************************************************)
\* compute_signature(msg, max_tokens=4)
max_tokens == 4
\* msg[:32], the fallback signature
FallbackChars == 32
\* len(g["examples"]) < 3
MaxExamples == 3
\* groups[:3], the groups sent to the model and shown in the graph's digest
top_n == 3

(***************************************************************************)
(* Characters and text.                                                     *)
(***************************************************************************)
lowers == <<"a","b","c","d","e","f","g","h","i","j","k","l","m",
            "n","o","p","q","r","s","t","u","v","w","x","y","z">>
uppers == <<"A","B","C","D","E","F","G","H","I","J","K","L","M",
            "N","O","P","Q","R","S","T","U","V","W","X","Y","Z">>
LowerSet == {lowers[i] : i \in 1..26}
UpperSet == {uppers[i] : i \in 1..26}
DigitSet == {"0","1","2","3","4","5","6","7","8","9"}
\* \s
SpaceSet == {" ", "\t"}
\* \w
WordSet == LowerSet \cup UpperSet \cup DigitSet \cup {"_"}
\* [-\w./]
PathSet == WordSet \cup {"-", ".", "/"}

\* str.lower() on one character
LowerChar(c) ==
  IF c \in UpperSet THEN lowers[CHOOSE i \in 1..26 : uppers[i] = c] ELSE c

\* str.lower()
Lower(s) == [i \in 1..Len(s) |-> LowerChar(s[i])]

\* the length of the longest run of characters of cls starting at s[i]
RECURSIVE RunLen(_, _, _)
RunLen(s, i, cls) ==
  IF i > Len(s) \/ s[i] \notin cls THEN 0 ELSE 1 + RunLen(s, i + 1, cls)

\* re.sub(r"/[-\w./]+", " ", s): leftmost, greedy, non-overlapping
RECURSIVE StripPathsFrom(_, _)
StripPathsFrom(s, i) ==
  IF i > Len(s) THEN <<>>
  ELSE IF s[i] = "/" /\ RunLen(s, i + 1, PathSet) >= 1
       THEN <<" ">> \o StripPathsFrom(s, i + 1 + RunLen(s, i + 1, PathSet))
       ELSE <<s[i]>> \o StripPathsFrom(s, i + 1)

StripPaths(s) == StripPathsFrom(s, 1)

\* re.sub(cls+, " ", s): every maximal run of cls becomes one space
RECURSIVE SubRunsFrom(_, _, _)
SubRunsFrom(s, i, cls) ==
  IF i > Len(s) THEN <<>>
  ELSE IF s[i] \in cls
       THEN <<" ">> \o SubRunsFrom(s, i + RunLen(s, i, cls), cls)
       ELSE <<s[i]>> \o SubRunsFrom(s, i + 1, cls)

\* re.sub(r"\d+", " ", s)
StripDigits(s) == SubRunsFrom(s, 1, DigitSet)

\* re.sub(r"[^a-z\s]", " ", s): one space per character
StripPunct(s) ==
  [i \in 1..Len(s) |-> IF s[i] \in LowerSet \cup SpaceSet THEN s[i] ELSE " "]

\* str.strip()
RECURSIVE LStrip(_)
LStrip(s) == IF s # <<>> /\ Head(s) \in SpaceSet THEN LStrip(Tail(s)) ELSE s

RECURSIVE RStrip(_)
RStrip(s) ==
  IF s # <<>> /\ s[Len(s)] \in SpaceSet
  THEN RStrip(SubSeq(s, 1, Len(s) - 1)) ELSE s

Strip(s) == RStrip(LStrip(s))

\* re.sub(r"\s+", " ", s).strip()
CollapseWs(s) == Strip(SubRunsFrom(s, 1, SpaceSet))

\* str.split(): the maximal runs of non-whitespace, in order
RECURSIVE SplitFrom(_, _)
SplitFrom(s, i) ==
  IF i > Len(s) THEN <<>>
  ELSE IF s[i] \in SpaceSet THEN SplitFrom(s, i + 1)
  ELSE LET n == CHOOSE k \in 1..(Len(s) - i + 1) :
                  /\ \A j \in i..(i + k - 1) : s[j] \notin SpaceSet
                  /\ (i + k > Len(s) \/ s[i + k] \in SpaceSet)
       IN <<SubSeq(s, i, i + n - 1)>> \o SplitFrom(s, i + n)

Split(s) == SplitFrom(s, 1)

\* " ".join(tokens)
RECURSIVE Join(_)
Join(tokens) ==
  IF tokens = <<>> THEN <<>>
  ELSE IF Len(tokens) = 1 THEN tokens[1]
  ELSE tokens[1] \o <<" ">> \o Join(Tail(tokens))

\* seq[:n]
Take(s, n) == SubSeq(s, 1, IF Len(s) < n THEN Len(s) ELSE n)

\* a signature without the token budget
compute_signature_untruncated(msg) ==
  LET tokens == Split(CollapseWs(StripPunct(StripDigits(StripPaths(Lower(msg))))))
  IN IF tokens # <<>> THEN Join(tokens) ELSE Take(msg, FallbackChars)

\* compute_signature of the command-line agent
compute_signature(msg) ==
  LET s1 == Lower(msg)
      s2 == StripPaths(s1)
      s3 == StripDigits(s2)
      s4 == StripPunct(s3)
      s5 == CollapseWs(s4)
      tokens == Split(s5)
  IN IF tokens # <<>> THEN Join(Take(tokens, max_tokens))
     ELSE Take(msg, FallbackChars)

\* the graph node's signature: msg.lower().split()[:4], else msg[:32]
graph_signature(msg) ==
  LET sig == Take(Split(Lower(msg)), max_tokens)
  IN IF sig # <<>> THEN Join(sig) ELSE Take(msg, FallbackChars)

(***************************************************************************)
(* Input lines.  The state holds a line by its index in LinePool; LineText *)
(* gives its characters.                                                    *)
(***************************************************************************)
TsText == <<"2","0","2","4","-","0","1","-","0","1"," ","1","0",":","0","0",":","0","0">>

LinePool == <<
  TsText \o <<" ","[","E","R","R","O","R","]"," ","D","b"," ","d","o","w","n"," ","/","a","1">>,
  TsText \o <<" ","[","E","R","R","O","R","]"," ","D","b"," ","d","o","w","n"," ","/","b","2">>,
  TsText \o <<" ","[","I","N","F","O","]"," ","o","k">>,
  TsText \o <<" ","[","D","E","B","U","G","]"," ","o","k">>,
  TsText \o <<" ","[","E","R","R","O","R","]"," ","X","E","r","r","o","r"," ","7">> >>

LineIds == 1..Len(LinePool)

LineText(id) == LinePool[id]

Levels == {"INFO", "WARN", "ERROR"}

LevelText(lv) ==
  CASE lv = "INFO" -> <<"I","N","F","O">>
    [] lv = "WARN" -> <<"W","A","R","N">>
    [] lv = "ERROR" -> <<"E","R","R","O","R">>

\* \d{4}-\d{2}-\d{2} \d{2}:\d{2}:\d{2} : "d" stands for \d, anything else for itself
TsPattern == <<"d","d","d","d","-","d","d","-","d","d"," ","d","d",":","d","d",":","d","d">>

\* whether the first characters of s match the timestamp pattern
TsMatches(s) ==
  /\ Len(s) >= Len(TsPattern)
  /\ \A i \in 1..Len(TsPattern) :
       IF TsPattern[i] = "d" THEN s[i] \in DigitSet ELSE s[i] = TsPattern[i]

\* whether t occurs in s at position i
OccursAt(s, i, t) ==
  /\ i + Len(t) - 1 <= Len(s)
  /\ \A j \in 1..Len(t) : s[i + j - 1] = t[j]

NoMatch == [ok |-> FALSE, level |-> "", msg |-> <<>>]

\* a match that takes any line with a timestamp, whatever its level
ReMatch_any_level(line) ==
  IF TsMatches(line)
  THEN [ok |-> TRUE, level |-> "INFO",
        msg |-> SubSeq(line, Len(TsPattern) + 2, Len(line))]
  ELSE NoMatch

\* re.match(ts \s+ \[(INFO|WARN|ERROR)\] \s+ (.*), line): the groups, or None
ReMatch(line) ==
  IF ~TsMatches(line) THEN NoMatch
  ELSE
    LET p1 == Len(TsPattern) + 1
        w1 == RunLen(line, p1, SpaceSet)
        p2 == p1 + w1
        lvs == {lv \in Levels : OccursAt(line, p2, <<"[">> \o LevelText(lv) \o <<"]">>)}
    IN IF w1 = 0 \/ lvs = {} THEN NoMatch
       ELSE
         LET lv == CHOOSE x \in lvs : TRUE
             p3 == p2 + Len(LevelText(lv)) + 2
             w2 == RunLen(line, p3, SpaceSet)
         IN IF w2 = 0 THEN NoMatch
            ELSE [ok |-> TRUE, level |-> lv,
                  msg |-> SubSeq(line, p3 + w2, Len(line))]

\* parse_log_line of the command-line agent: the message is stripped
parse_log_line(line) ==
  LET m == ReMatch(line)
  IN IF m.ok THEN [m EXCEPT !.msg = Strip(m.msg)] ELSE m

(***************************************************************************)
(* Aggregation.  The dict of groups is a sequence in insertion order.       *)
(***************************************************************************)
\* exceptions = <<>> stands for a group without the "exceptions" key
NewGroup(sig) ==
  [signature |-> sig, count |-> 0,
   levels |-> [INFO |-> 0, WARN |-> 0, ERROR |-> 0],
   examples |-> <<>>, exceptions |-> <<>>]

\* a lookup that never finds the signature
IndexOfSig_never(groups, sig) == 0

\* groups.get(sig): the index of the group with this signature, or 0
IndexOfSig(groups, sig) ==
  IF \E i \in 1..Len(groups) : groups[i].signature = sig
  THEN CHOOSE i \in 1..Len(groups) : groups[i].signature = sig
  ELSE 0

\* a loop body that counts the event but not its level
AddEvent_without_level(groups, sig, level, id) ==
  LET at == IndexOfSig(groups, sig)
      gs == IF at = 0 THEN Append(groups, NewGroup(sig)) ELSE groups
      i == IF at = 0 THEN Len(gs) ELSE at
      g == gs[i]
  IN [gs EXCEPT ![i] =
        [g EXCEPT !.count = @ + 1,
                  !.examples = IF Len(@) < MaxExamples THEN Append(@, id) ELSE @]]

\* a loop body that keeps the latest examples instead of the first
AddEvent_keep_latest(groups, sig, level, id) ==
  LET at == IndexOfSig(groups, sig)
      gs == IF at = 0 THEN Append(groups, NewGroup(sig)) ELSE groups
      i == IF at = 0 THEN Len(gs) ELSE at
      g == gs[i]
  IN [gs EXCEPT ![i] =
        [g EXCEPT !.count = @ + 1,
                  !.levels = [@ EXCEPT ![level] = @ + 1],
                  !.examples = IF Len(@) < MaxExamples THEN Append(@, id)
                               ELSE Append(Tail(@), id)]]

\* one iteration of the loop body for a line that matched
AddEvent(groups, sig, level, id) ==
  LET at == IndexOfSig(groups, sig)
      gs == IF at = 0 THEN Append(groups, NewGroup(sig)) ELSE groups
      i == IF at = 0 THEN Len(gs) ELSE at
      g == gs[i]
  IN [gs EXCEPT ![i] =
        [g EXCEPT !.count = @ + 1,
                  !.levels = [@ EXCEPT ![level] = @ + 1],
                  !.examples = IF Len(@) < MaxExamples THEN Append(@, id) ELSE @]]

\* an insertion that puts a group before the groups of equal count
RECURSIVE InsertByCount_unstable(_, _)
InsertByCount_unstable(sorted, g) ==
  IF sorted = <<>> THEN <<g>>
  ELSE IF Head(sorted).count > g.count
       THEN <<Head(sorted)>> \o InsertByCount_unstable(Tail(sorted), g)
       ELSE <<g>> \o sorted

\* sorted(groups.values(), key=count, reverse=True): stable, by insertion
RECURSIVE InsertByCount(_, _)
InsertByCount(sorted, g) ==
  IF sorted = <<>> THEN <<g>>
  ELSE IF Head(sorted).count >= g.count
       THEN <<Head(sorted)>> \o InsertByCount(Tail(sorted), g)
       ELSE <<g>> \o sorted

RECURSIVE SortByCountFrom(_, _, _)
SortByCountFrom(groups, i, acc) ==
  IF i > Len(groups) THEN acc
  ELSE SortByCountFrom(groups, i + 1, InsertByCount(acc, groups[i]))

SortByCount(groups) == SortByCountFrom(groups, 1, <<>>)

\* the loop of the command-line agent's group_events over lines[i..]
RECURSIVE cli_fold(_, _, _)
cli_fold(lines, i, groups) ==
  IF i > Len(lines) THEN groups
  ELSE LET parsed == parse_log_line(LineText(lines[i]))
       IN IF ~parsed.ok THEN cli_fold(lines, i + 1, groups)
          ELSE cli_fold(lines, i + 1,
                 AddEvent(groups, compute_signature(parsed.msg), parsed.level, lines[i]))

\* group_events of the command-line agent
cli_group_events(lines) == SortByCount(cli_fold(lines, 1, <<>>))

\* the loop of the graph node group_events over lines[i..]
RECURSIVE graph_fold(_, _, _)
graph_fold(lines, i, groups) ==
  IF i > Len(lines) THEN groups
  ELSE LET m == ReMatch(LineText(lines[i]))
       IN IF ~m.ok THEN graph_fold(lines, i + 1, groups)
          ELSE graph_fold(lines, i + 1,
                 AddEvent(groups, graph_signature(m.msg), m.level, lines[i]))

\* the graph node group_events
graph_group_events(lines) == SortByCount(graph_fold(lines, 1, <<>>))

(***************************************************************************)
(* Exception-like tokens: re.findall(r"([A-Za-z_]+(?:Error|Exception))").   *)
(***************************************************************************)
\* [A-Za-z_]
NameSet == LowerSet \cup UpperSet \cup {"_"}

ErrorText == <<"E","r","r","o","r">>
ExceptionText == <<"E","x","c","e","p","t","i","o","n">>

\* the length of the suffix (Error, else Exception) found at s[i..], or 0
SuffixAt(s, i) ==
  IF OccursAt(s, i, ErrorText) THEN Len(ErrorText)
  ELSE IF OccursAt(s, i, ExceptionText) THEN Len(ExceptionText)
  ELSE 0

\* the length of the match that starts at s[i], or 0: the greedy name run
\* gives back characters until a suffix follows it
MatchLenAt(s, i) ==
  LET run == RunLen(s, i, NameSet)
      ks == {k \in 1..run : SuffixAt(s, i + k) > 0}
  IN IF ks = {} THEN 0
     ELSE LET k == CHOOSE x \in ks : \A y \in ks : y <= x
          IN k + SuffixAt(s, i + k)

RECURSIVE FindAllFrom(_, _)
FindAllFrom(s, i) ==
  IF i > Len(s) THEN <<>>
  ELSE IF MatchLenAt(s, i) > 0
       THEN <<SubSeq(s, i, i + MatchLenAt(s, i) - 1)>>
            \o FindAllFrom(s, i + MatchLenAt(s, i))
       ELSE FindAllFrom(s, i + 1)

FindAll(s) == FindAllFrom(s, 1)

\* for f in found: if f not in exs: exs.append(f)
RECURSIVE AppendNew(_, _)
AppendNew(exs, found) ==
  IF found = <<>> THEN exs
  ELSE AppendNew(IF \E i \in 1..Len(exs) : exs[i] = Head(found)
                 THEN exs ELSE Append(exs, Head(found)),
                 Tail(found))

\* the distinct tokens of a group's example lines, first seen first
RECURSIVE ExceptionsOf(_, _, _)
ExceptionsOf(examples, i, exs) ==
  IF i > Len(examples) THEN exs
  ELSE ExceptionsOf(examples, i + 1,
                    AppendNew(exs, FindAll(LineText(examples[i]))))

(***************************************************************************)
(* Values of the reply's summary: a JSON number (error rates in thousandths,*)
(* so 667 is 0.667), a JSON string, or a missing key.                       *)
(***************************************************************************)
Absent == [kind |-> "absent", val |-> 0]
TextValue == [kind |-> "text", val |-> 0]
Num(v) == [kind |-> "num", val |-> v]

RECURSIVE SumCounts(_)
SumCounts(gs) == IF gs = <<>> THEN 0 ELSE Head(gs).count + SumCounts(Tail(gs))

RECURSIVE SumErrors(_)
SumErrors(gs) ==
  IF gs = <<>> THEN 0 ELSE Head(gs).levels.ERROR + SumErrors(Tail(gs))

\* round(local_errors / max(1, total), 3), in thousandths (ties to even)
computed_error_rate(local_errors, total) ==
  LET d == IF total < 1 THEN 1 ELSE total
      q == (1000 * local_errors) \div d
      r == (1000 * local_errors) % d
  IN IF 2 * r < d THEN q
     ELSE IF 2 * r > d THEN q + 1
     ELSE IF q % 2 = 0 THEN q ELSE q + 1

(***************************************************************************)
(* The text-generation reply.  The call is given the first top_n groups; a  *)
(* reply is drawn from what an unreliable annotator can answer to them: the *)
(* groups echoed with or without narrative text, with groups dropped,       *)
(* reordered, renamed, invented or with changed numbers, and a summary with *)
(* or without its own total_events and error_rate.                          *)
(***************************************************************************)
RcText == <<"r","c">>
RecText == <<"r","e","c">>
GhostSig == <<"g","h","o","s","t">>

Annotate(g, rc, rec) ==
  [signature |-> g.signature, count |-> g.count, levels |-> g.levels,
   examples |-> g.examples, exceptions |-> g.exceptions,
   probable_root_cause |-> rc, recommendation |-> rec]

Echo(payload) == [i \in 1..Len(payload) |-> Annotate(payload[i], <<>>, <<>>)]

Reverse(q) == [i \in 1..Len(q) |-> q[Len(q) + 1 - i]]

GhostGroup ==
  [signature |-> GhostSig, count |-> 1,
   levels |-> [INFO |-> 0, WARN |-> 0, ERROR |-> 1],
   examples |-> <<>>, exceptions |-> <<>>,
   probable_root_cause |-> RcText, recommendation |-> RecText]

\* a summary key holding a list of signatures, or no such key
NoList == [kind |-> "absent", val |-> <<>>]
List(v) == [kind |-> "list", val |-> v]

NoSummary == [total_events |-> Absent, error_rate |-> Absent, top_signatures |-> NoList]

ReplyGroups(payload) ==
  LET e == Echo(payload)
  IN {e, <<>>, Append(e, GhostGroup)}
     \cup (IF e = <<>> THEN {}
           ELSE {[e EXCEPT ![1].probable_root_cause = RcText,
                           ![1].recommendation = RecText],
                 [e EXCEPT ![1].probable_root_cause = RcText],
                 [e EXCEPT ![1].recommendation = RecText],
                 Tail(e), Reverse(e),
                 [e EXCEPT ![1].signature = GhostSig],
                 [e EXCEPT ![1].count = @ + 1, ![1].levels.ERROR = @ + 1],
                 [e EXCEPT ![1].levels.ERROR = 0, ![1].levels.INFO = e[1].count]})

ReplySummaries(total) ==
  {[NoSummary EXCEPT !.total_events = Num(total)],
   [NoSummary EXCEPT !.total_events = Num(total + 1)],
   [NoSummary EXCEPT !.error_rate = TextValue],
   [NoSummary EXCEPT !.error_rate = Num(0 - 500)],
   [NoSummary EXCEPT !.error_rate = Num(500)],
   [NoSummary EXCEPT !.error_rate = Num(1500)],
   [NoSummary EXCEPT !.top_signatures = List(<<GhostSig>>)]}

Replies(payload, total) ==
  {[kind |-> k, groups |-> <<>>, summary |-> NoSummary] :
      k \in {"raise", "malformed", "nonobject"}}
  \cup {[kind |-> "object", groups |-> gs, summary |-> NoSummary] :
          gs \in ReplyGroups(payload)}
  \cup {[kind |-> "object", groups |-> Echo(payload), summary |-> sm] :
          sm \in ReplySummaries(total)}

NoReply == [kind |-> "none", groups |-> <<>>, summary |-> NoSummary]
NoFindings == [groups |-> <<>>, summary |-> NoSummary]

(***************************************************************************)
(* Post-processing of the parsed reply by the command-line agent.           *)
(***************************************************************************)
\* ", ".join(exs)
RECURSIVE JoinComma(_)
JoinComma(exs) ==
  IF exs = <<>> THEN <<>>
  ELSE IF Len(exs) = 1 THEN exs[1]
  ELSE exs[1] \o <<",", " ">> \o JoinComma(Tail(exs))

\* f"Investigate {exs[0]} and related services"
Investigate(token) ==
  <<"I","n","v","e","s","t","i","g","a","t","e"," ">> \o token \o <<" ","a","n","d"," ","r","e","l","a","t","e","d"," ","s","e","r","v","i","c","e","s">>

\* a heuristic that replaces the recommendation whenever it finds a token
fallback_group_overwriting(g) ==
  LET exs == ExceptionsOf(g.examples, 1, <<>>)
  IN IF g.probable_root_cause = <<>> /\ exs # <<>>
     THEN [g EXCEPT !.probable_root_cause = JoinComma(exs),
                    !.recommendation = Investigate(exs[1])]
     ELSE g

\* the heuristic applied to one group of the findings
fallback_group(g) ==
  LET exs == ExceptionsOf(g.examples, 1, <<>>)
  IN IF g.probable_root_cause = <<>> /\ exs # <<>>
     THEN [g EXCEPT !.probable_root_cause = JoinComma(exs),
                    !.recommendation =
                       IF @ = <<>> THEN Investigate(exs[1]) ELSE @]
     ELSE g

\* isinstance(er, (int, float)) and 0 <= er <= 1
ValidRate(er) == er.kind = "num" /\ 0 <= er.val /\ er.val <= 1000

\* lines 183-208: summary defaults, error-rate validation, fallback tokens
cli_post_process(parsed, local, total) ==
  [groups |-> [i \in 1..Len(parsed.groups) |-> fallback_group(parsed.groups[i])],
   summary |->
     [parsed.summary EXCEPT
        !.total_events = IF @.kind = "absent" THEN Num(total) ELSE @,
        !.error_rate = IF ValidRate(@) THEN @
                       ELSE Num(computed_error_rate(SumErrors(local), total))]]

\* build_llm_messages: the first top_n groups get their "exceptions"
with_exceptions(local) ==
  [i \in 1..Len(local) |->
     IF i <= top_n
     THEN [local[i] EXCEPT !.exceptions = ExceptionsOf(local[i].examples, 1, <<>>)]
     ELSE local[i]]

\* the graph node's findings when json.loads fails
graph_unparsed(total) ==
  [groups |-> <<>>,
   summary |-> [NoSummary EXCEPT !.total_events = Num(total)]]

(***************************************************************************)
(* Tickets, the dedupe cache and the notification.                          *)
(***************************************************************************)
\* an issue key the tracker returned: the n-th issue it created
Key(n) == [tag |-> "KEY", n |-> n]
ALREADY_REPORTED == [tag |-> "ALREADY_REPORTED", n |-> 0]
NoJira == [tag |-> "No Jira", n |-> 0]

\* a create_issue failure that is not caught ends the run
on_create_error_abort(p) == "crashed"

\* "except Exception as e: logger.error(...)" around create_issue and
\* mark_today: the position p of the run after a failed create_issue
on_create_error(p) == p

(***************************************************************************)
(* State.                                                                   *)
(***************************************************************************)
\* no call of compute_signature on its own
NoCall == [msg |-> <<>>, sig |-> <<>>, at |-> "none"]

VARIABLES
  mode,        \* "cli": agents/log_analyzer.main, "graph": the graph pipeline
  pc,          \* the position of the run
  logs,        \* the lines read (indices into LinePool)
  groups,      \* the groups aggregated from logs
  raw,         \* the reply of the text-generation call
  findings,    \* the report: groups and summary
  idx,         \* the ticket loop's position in findings.groups
  created,     \* cli: (signature, key, errors) entries; graph: issue keys
  jira,        \* the issues the tracker holds
  jira_calls,  \* history: every create_issue call of this run and its outcome
  posts,       \* history: every post_message call of this run and its outcome
  CACHE,       \* created_bugs.json: (day, signature) -> issue key
  today,       \* the UTC day
  workers,     \* concurrent ticket loops over the same tracker and cache
  resolvable,  \* whether any of the given input paths can be read
  normalizer   \* a call of compute_signature: its message and its result

vars == <<mode, pc, logs, groups, raw, findings, idx, created, jira,
          jira_calls, posts, CACHE, today, workers, resolvable, normalizer>>

Inputs == UNION {[1..n -> LineIds] : n \in 0..MaxLines}

_today_key(signature) == <<today, signature>>

\* a dedupe check that never finds the signature
seen_today_never(signature) == FALSE

seen_today(signature) == _today_key(signature) \in DOMAIN CACHE

mark_today(signature, issue_key) ==
  [k \in DOMAIN CACHE \cup {_today_key(signature)} |->
     IF k = _today_key(signature) THEN issue_key ELSE CACHE[k]]

\* a grouping that folds into the groups an earlier call returned
group_events_into_earlier(lines) ==
  IF mode = "cli" THEN SortByCount(cli_fold(lines, 1, groups))
  ELSE SortByCount(graph_fold(lines, 1, groups))

\* the grouping of the running entry point
group_events(lines) ==
  IF mode = "cli" THEN cli_group_events(lines) ELSE graph_group_events(lines)

\* the signature an earlier run of the same day filed a ticket for
EarlierSig(m) ==
  IF m = "cli" THEN compute_signature(parse_log_line(LineText(1)).msg)
  ELSE graph_signature(ReMatch(LineText(1)).msg)

Init ==
  /\ mode \in {"cli", "graph"}
  /\ pc = "start"
  /\ logs = <<>>
  /\ groups = <<>>
  /\ raw = NoReply
  /\ findings = NoFindings
  /\ idx = 1
  /\ created = <<>>
  /\ jira_calls = <<>>
  /\ posts = <<>>
  /\ today = 1
  /\ workers = <<>>
  /\ resolvable \in BOOLEAN
  /\ normalizer = NoCall
  /\ \E earlier \in BOOLEAN :
       IF earlier
       THEN /\ jira = <<[signature |-> EarlierSig(mode),
                       title |-> EarlierSig(mode), errors |-> 1]>>
            /\ CACHE = (<<1, EarlierSig(mode)>> :> Key(1))
       ELSE /\ jira = <<>>
            /\ CACHE = <<>>

(***************************************************************************)
(* The command-line agent: main() of agents/log_analyzer.py.                *)
(***************************************************************************)
\* load_logs: a path that cannot be opened raises out of main
main_load_logs ==
  /\ mode = "cli" /\ pc = "start"
  /\ \/ resolvable /\ \E lines \in Inputs : logs' = lines /\ pc' = "read"
     \/ logs' = logs /\ pc' = "crashed"
  /\ UNCHANGED <<mode, groups, raw, findings, idx, created, jira,
                 jira_calls, posts, CACHE, today, workers, resolvable, normalizer>>

main_group_events ==
  /\ mode = "cli" /\ pc = "read"
  /\ groups' = group_events(logs)
  /\ pc' = "grouped"
  /\ UNCHANGED <<mode, logs, raw, findings, idx, created, jira,
                 jira_calls, posts, CACHE, today, workers, resolvable, normalizer>>

\* build_llm_messages, call_llm, parse_llm_output, the post-processing and the
\* written report; a failed call and an unparseable reply raise out of main
main_analyze ==
  /\ mode = "cli" /\ pc = "grouped"
  /\ groups' = with_exceptions(groups)
  /\ \E r \in Replies(Take(groups', top_n), SumCounts(groups)) :
       /\ raw' = r
       /\ IF r.kind = "object"
          THEN /\ findings' = cli_post_process(r, groups', SumCounts(groups))
               /\ pc' = IF findings'.groups = <<>> THEN "done" ELSE "tickets"
          ELSE /\ findings' = findings
               /\ pc' = "crashed"
  /\ UNCHANGED <<mode, logs, idx, created, jira, jira_calls, posts, CACHE,
                 today, workers, resolvable,
                 normalizer>>

\* exceptions[0] if exceptions else sig
TitleOf(g) == IF g.exceptions # <<>> THEN g.exceptions[1] ELSE g.signature

\* one iteration of the loop "for g in groups" (lines 233-277)
main_ticket ==
  /\ mode = "cli" /\ pc = "tickets" /\ idx <= Len(findings.groups)
  /\ LET g == findings.groups[idx]
         errors == g.levels.ERROR
         sig == g.signature
     IN IF errors <= 0
        THEN UNCHANGED <<pc, created, jira, jira_calls, CACHE>>
        ELSE IF seen_today(sig)
        THEN /\ created' = Append(created,
                  [signature |-> sig, key |-> ALREADY_REPORTED, errors |-> errors])
             /\ UNCHANGED <<pc, jira, jira_calls, CACHE>>
        ELSE \/ /\ jira' = Append(jira, [signature |-> sig, title |-> TitleOf(g), errors |-> errors])
                /\ pc' = pc
                /\ created' = Append(created,
                     [signature |-> sig, key |-> Key(Len(jira')), errors |-> errors])
                /\ CACHE' = mark_today(sig, Key(Len(jira')))
                /\ jira_calls' = Append(jira_calls,
                     [group |-> idx, signature |-> sig, ok |-> TRUE,
                      key |-> Key(Len(jira'))])
             \/ /\ jira_calls' = Append(jira_calls,
                     [group |-> idx, signature |-> sig, ok |-> FALSE,
                      key |-> NoJira])
                /\ pc' = on_create_error(pc)
                /\ UNCHANGED <<created, jira, CACHE>>
  /\ idx' = idx + 1
  /\ UNCHANGED <<mode, logs, groups, raw, findings, posts, today, workers, resolvable,
                 normalizer>>

\* a loop end that keeps only the groups with tickets in the report
main_tickets_end_pruning ==
  /\ mode = "cli" /\ pc = "tickets" /\ idx > Len(findings.groups)
  /\ pc' = IF created = <<>> THEN "done" ELSE "slack"
  /\ findings' = [findings EXCEPT !.groups =
                    SelectSeq(@, LAMBDA g : g.levels.ERROR > 0)]
  /\ UNCHANGED <<mode, logs, groups, raw, idx, created, jira,
                 jira_calls, posts, CACHE, today, workers, resolvable, normalizer>>

\* after the loop: "if not created: return"
main_tickets_end ==
  /\ mode = "cli" /\ pc = "tickets" /\ idx > Len(findings.groups)
  /\ pc' = IF created = <<>> THEN "done" ELSE "slack"
  /\ UNCHANGED <<mode, logs, groups, raw, findings, idx, created, jira,
                 jira_calls, posts, CACHE, today, workers, resolvable, normalizer>>

\* next(gx for gx in groups if gx.get("signature") == sig)
FirstWithSig(gs, sig) == gs[CHOOSE i \in 1..Len(gs) :
                              /\ gs[i].signature = sig
                              /\ \A j \in 1..(i - 1) : gs[j].signature # sig]

\* the digest of the command-line agent (lines 285-310)
main_digest ==
  [total_events |-> findings.summary.total_events,
   error_rate |-> findings.summary.error_rate,
   entries |-> [i \in 1..Len(created) |->
      LET gmatch == FirstWithSig(findings.groups, created[i].signature)
      IN [signature |-> created[i].signature,
          title |-> TitleOf(gmatch),
          errors |-> created[i].errors,
          jira |-> created[i].key,
          recommendation |-> gmatch.recommendation]]]

\* the one Slack summary; a failed post is logged
main_slack ==
  /\ mode = "cli" /\ pc = "slack"
  /\ \E delivered \in BOOLEAN :
       posts' = Append(posts, [text |-> main_digest, delivered |-> delivered])
  /\ pc' = "done"
  /\ UNCHANGED <<mode, logs, groups, raw, findings, idx, created, jira,
                 jira_calls, CACHE, today, workers, resolvable,
                 normalizer>>

(***************************************************************************)
(* The graph pipeline: the five nodes of graph/log_analyzer/nodes.py, run   *)
(* in the order graph.py wires them.                                        *)
(***************************************************************************)
\* a wiring that files the tickets before the analysis
edge_tickets_first(p) ==
  CASE p = "start" -> "read"
    [] p = "read" -> "tickets"
    [] p = "tickets" -> "grouped"
    [] p = "grouped" -> "slack"
    [] p = "slack" -> "done"

\* the edges of build_graph: the position after the node at position p has
\* returned (start: read_logs, read: group_events, grouped: analyze_with_llm,
\* tickets: create_jira_tickets, slack: send_slack_summary, done: END)
edge(p) ==
  CASE p = "start" -> "read"
    [] p = "read" -> "grouped"
    [] p = "grouped" -> "tickets"
    [] p = "tickets" -> "slack"
    [] p = "slack" -> "done"

\* a path that does not exist is skipped with a warning; one that exists
\* and cannot be read raises out of the node
read_logs ==
  /\ mode = "graph" /\ pc = "start"
  /\ \/ resolvable /\ \E lines \in Inputs : logs' = lines /\ pc' = edge(pc)
     \/ logs' = <<>> /\ pc' = edge(pc)
     \/ logs' = logs /\ pc' = "crashed"
  /\ UNCHANGED <<mode, groups, raw, findings, idx, created, jira,
                 jira_calls, posts, CACHE, today, workers, resolvable, normalizer>>

node_group_events ==
  /\ mode = "graph" /\ pc = "read"
  /\ groups' = group_events(logs)
  /\ pc' = edge(pc)
  /\ UNCHANGED <<mode, logs, raw, findings, idx, created, jira,
                 jira_calls, posts, CACHE, today, workers, resolvable, normalizer>>

\* chat raising, and findings.get on JSON that is no object, raise out of the
\* node; text json.loads rejects gives the empty findings
analyze_with_llm ==
  /\ mode = "graph" /\ pc = "grouped"
  /\ \E r \in Replies(Take(groups, top_n), SumCounts(groups)) :
       /\ raw' = r
       /\ CASE r.kind = "object" ->
                 /\ findings' = [groups |-> r.groups, summary |-> r.summary]
                 /\ pc' = edge(pc)
            [] r.kind = "malformed" ->
                 /\ findings' = graph_unparsed(SumCounts(groups))
                 /\ pc' = edge(pc)
            [] OTHER ->
                 /\ findings' = findings
                 /\ pc' = "crashed"
  /\ UNCHANGED <<mode, logs, groups, idx, created, jira, jira_calls, posts,
                 CACHE, today, workers, resolvable,
                 normalizer>>

\* a loop body that records the signature before create_issue has returned
create_jira_tickets_marking_first ==
  /\ mode = "graph" /\ pc = "tickets" /\ idx <= Len(findings.groups)
  /\ LET g == findings.groups[idx]
         errors == g.levels.ERROR
         sig == g.signature
     IN IF errors <= 0 \/ seen_today(sig)
        THEN UNCHANGED <<pc, created, jira, jira_calls, CACHE>>
        ELSE \/ /\ jira' = Append(jira, [signature |-> sig, title |-> sig, errors |-> errors])
                /\ pc' = pc
                /\ created' = Append(created, Key(Len(jira')))
                /\ CACHE' = mark_today(sig, Key(Len(jira')))
                /\ jira_calls' = Append(jira_calls,
                     [group |-> idx, signature |-> sig, ok |-> TRUE,
                      key |-> Key(Len(jira'))])
             \/ /\ jira_calls' = Append(jira_calls,
                     [group |-> idx, signature |-> sig, ok |-> FALSE,
                      key |-> NoJira])
                /\ pc' = on_create_error(pc)
                /\ CACHE' = mark_today(sig, NoJira)
                /\ UNCHANGED <<created, jira>>
  /\ idx' = idx + 1
  /\ UNCHANGED <<mode, logs, groups, raw, findings, posts, today, workers, resolvable,
                 normalizer>>

\* one iteration of the loop "for g in groups" (lines 128-148)
create_jira_tickets ==
  /\ mode = "graph" /\ pc = "tickets" /\ idx <= Len(findings.groups)
  /\ LET g == findings.groups[idx]
         errors == g.levels.ERROR
         sig == g.signature
     IN IF errors <= 0 \/ seen_today(sig)
        THEN UNCHANGED <<pc, created, jira, jira_calls, CACHE>>
        ELSE \/ /\ jira' = Append(jira, [signature |-> sig, title |-> sig, errors |-> errors])
                /\ pc' = pc
                /\ created' = Append(created, Key(Len(jira')))
                /\ CACHE' = mark_today(sig, Key(Len(jira')))
                /\ jira_calls' = Append(jira_calls,
                     [group |-> idx, signature |-> sig, ok |-> TRUE,
                      key |-> Key(Len(jira'))])
             \/ /\ jira_calls' = Append(jira_calls,
                     [group |-> idx, signature |-> sig, ok |-> FALSE,
                      key |-> NoJira])
                /\ pc' = on_create_error(pc)
                /\ UNCHANGED <<created, jira, CACHE>>
  /\ idx' = idx + 1
  /\ UNCHANGED <<mode, logs, groups, raw, findings, posts, today, workers, resolvable,
                 normalizer>>

\* state["jira_issues"] = created
create_jira_tickets_end ==
  /\ mode = "graph" /\ pc = "tickets" /\ idx > Len(findings.groups)
  /\ pc' = edge(pc)
  /\ UNCHANGED <<mode, logs, groups, raw, findings, idx, created, jira,
                 jira_calls, posts, CACHE, today, workers, resolvable, normalizer>>

\* the digest of the graph pipeline (lines 165-177): every listed group is
\* given the key of the last issue created
graph_digest ==
  [total_events |-> findings.summary.total_events,
   error_rate |-> findings.summary.error_rate,
   entries |-> [i \in 1..Len(Take(findings.groups, top_n)) |->
      [signature |-> findings.groups[i].signature,
       title |-> findings.groups[i].signature,
       errors |-> findings.groups[i].levels.ERROR,
       jira |-> IF created # <<>> THEN created[Len(created)] ELSE NoJira,
       recommendation |-> findings.groups[i].recommendation]]]

\* no groups: nothing is posted; an error_rate that is no number fails the
\* ":.2f" format and raises out of the node; a failed post is logged
send_slack_summary ==
  /\ mode = "graph" /\ pc = "slack"
  /\ IF findings.groups = <<>>
     THEN pc' = edge(pc) /\ posts' = posts
     ELSE IF findings.summary.error_rate.kind = "text"
     THEN pc' = "crashed" /\ posts' = posts
     ELSE /\ \E delivered \in BOOLEAN :
               posts' = Append(posts, [text |-> graph_digest, delivered |-> delivered])
          /\ pc' = edge(pc)
  /\ UNCHANGED <<mode, logs, groups, raw, findings, idx, created, jira,
                 jira_calls, CACHE, today, workers, resolvable,
                 normalizer>>

Next ==
  \/ main_load_logs \/ main_group_events \/ main_analyze
  \/ main_ticket \/ main_tickets_end \/ main_slack
  \/ read_logs \/ node_group_events \/ analyze_with_llm
  \/ create_jira_tickets \/ create_jira_tickets_end \/ send_slack_summary

Spec == Init /\ [][Next]_vars

(***************************************************************************)
(* Properties.                                                              *)
(***************************************************************************)
\* the report has been written and the run has not raised
ReportWritten == pc \in {"tickets", "slack", "done"}

Signatures(gs) == [i \in 1..Len(gs) |-> gs[i].signature]

SigSet(gs) == {gs[i].signature : i \in 1..Len(gs)}

Qualifying(gs) == {i \in 1..Len(gs) : gs[i].levels.ERROR > 0}

\* the report the running entry point builds from reply r and the local groups
ReportOf(r) ==
  IF mode = "cli" THEN cli_post_process(r, groups, SumCounts(groups))
  ELSE IF r.kind = "malformed" THEN graph_unparsed(SumCounts(groups))
  ELSE [groups |-> r.groups, summary |-> r.summary]

\* C1: the groups of the final report have exactly the signatures of the
\* aggregated group list, in the same order, whatever the reply was.
C1_ReportKeepsLocalGroups ==
  ReportWritten => Signatures(findings.groups) = Signatures(groups)

\* C2: in every final report summary.total_events is the sum of the counts
\* of the report's groups, which is the number of well-formed input lines.
C2_TotalIsSumOfCounts ==
  ReportWritten =>
    /\ findings.summary.total_events = Num(SumCounts(findings.groups))
    /\ SumCounts(findings.groups) =
         Cardinality({i \in 1..Len(logs) : ReMatch(LineText(logs[i])).ok})

\* C3: in every final report summary.error_rate is the locally computed
\* rate, whatever error_rate the reply supplied.
C3_ErrorRateIsLocal ==
  ReportWritten =>
    findings.summary.error_rate =
      Num(computed_error_rate(SumErrors(groups), SumCounts(groups)))

\* two replies that differ at most in the count and levels of their groups
SameButNumbers(r1, r2) ==
  /\ r1.kind = "object" /\ r2.kind = "object"
  /\ r1.summary = r2.summary
  /\ Len(r1.groups) = Len(r2.groups)
  /\ \A i \in 1..Len(r1.groups) :
       [r1.groups[i] EXCEPT !.count = 0, !.levels = NewGroup(<<>>).levels]
       = [r2.groups[i] EXCEPT !.count = 0, !.levels = NewGroup(<<>>).levels]

CountsAndLevels(gs) == [i \in 1..Len(gs) |-> <<gs[i].count, gs[i].levels>>]

\* the signatures the ticket loop calls create_issue for
TicketSignatures(gs) ==
  {gs[i].signature : i \in {j \in Qualifying(gs) : ~seen_today(gs[j].signature)}}

\* C4: a run on the same lines whose reply differs only in count and levels
\* values gives a report with the same count and levels for every group and
\* files tickets for the same signatures.
C4_NumbersOfReplyIgnored ==
  pc = "tickets" /\ idx = 1 =>
    \A r2 \in Replies(Take(groups, top_n), SumCounts(groups)) :
      SameButNumbers(raw, r2) =>
        /\ CountsAndLevels(ReportOf(r2).groups) = CountsAndLevels(findings.groups)
        /\ TicketSignatures(ReportOf(r2).groups) = TicketSignatures(findings.groups)

\* the signatures of the reply that no aggregated group has
UnknownSignatures == SigSet(raw.groups) \ SigSet(groups)

\* C5: a reply entry whose signature matches no aggregated group gives no
\* report group, no ticket and no notification line.
C5_UnknownSignatureDiscarded ==
  \A sig \in UnknownSignatures :
    /\ ReportWritten => sig \notin SigSet(findings.groups)
    /\ \A c \in 1..Len(jira_calls) : jira_calls[c].signature # sig
    /\ \A p \in 1..Len(posts) : \A e \in 1..Len(posts[p].text.entries) :
         posts[p].text.entries[e].signature # sig

\* every aggregated group is in the report with its own count and levels
ReportHasLocalGroups ==
  \A i \in 1..Len(groups) : \E j \in 1..Len(findings.groups) :
    /\ findings.groups[j].signature = groups[i].signature
    /\ findings.groups[j].count = groups[i].count
    /\ findings.groups[j].levels = groups[i].levels

\* C6: a reply that is not parseable does not end the run, and the report
\* then holds every aggregated group with its local counts.
C6_UnparseableReplyDegrades ==
  raw.kind = "malformed" =>
    /\ pc # "crashed"
    /\ ReportWritten => ReportHasLocalGroups

\* C7: a text-generation call that raises does not end the run.
C7_FailedCallNotFatal ==
  raw.kind = "raise" => pc # "crashed"

\* C9: a finished run whose report has a group with ERROR count > 0 issued
\* exactly one notification call, and only after the ticket loop.
C9_OneNotification ==
  /\ Len(posts) <= 1
  /\ posts # <<>> => idx > Len(findings.groups)
  /\ pc = "done" /\ Qualifying(findings.groups) # {} => Len(posts) = 1

\* C10: the notification shows a ticket identifier only with the group
\* whose create_issue call returned it in this run.
C10_KeyShownWithItsGroup ==
  \A p \in 1..Len(posts) : \A e \in 1..Len(posts[p].text.entries) :
    LET entry == posts[p].text.entries[e]
    IN entry.jira.tag = "KEY" =>
         \E c \in 1..Len(jira_calls) :
           /\ jira_calls[c].ok
           /\ jira_calls[c].key = entry.jira
           /\ jira_calls[c].signature = entry.signature

\* iteration i of the ticket loop called create_issue
Attempted(i) == \E c \in 1..Len(jira_calls) : jira_calls[c].group = i

\* iteration i found its signature already recorded: the cache holds it, and
\* not through a call of a later iteration
DedupeSkipped(i) ==
  LET sig == findings.groups[i].signature
  IN /\ seen_today(sig)
     /\ \A c \in 1..Len(jira_calls) :
          jira_calls[c].ok /\ jira_calls[c].key = CACHE[_today_key(sig)]
            => jira_calls[c].group < i

\* the keys of the created list
CreatedKeys ==
  {IF mode = "cli" THEN created[i].key ELSE created[i] : i \in 1..Len(created)}

\* the ticket loop has run over every group of the report
LoopFinished == idx = Len(findings.groups) + 1

\* C8: isolate-and-continue. Whatever create_issue calls raise, the loop
\* reaches every group, each qualifying group gets its own create_issue call
\* or a dedupe skip, and every ticket created stays on the tracker, in the
\* created list and in the dedupe cache, also after a later failed call and
\* after a failed notification.
C8_IsolateAndContinue ==
  /\ jira_calls # <<>> /\ pc \in {"slack", "done", "crashed"} => LoopFinished
  /\ pc \in {"tickets", "slack", "done"} =>
       \A i \in Qualifying(findings.groups) :
         i < idx => Attempted(i) \/ DedupeSkipped(i)
  /\ \A c \in 1..Len(jira_calls) :
       jira_calls[c].ok =>
         /\ jira_calls[c].key.n \in 1..Len(jira)
         /\ jira[jira_calls[c].key.n].signature = jira_calls[c].signature
         /\ jira_calls[c].key \in CreatedKeys
         /\ seen_today(jira_calls[c].signature)
         /\ CACHE[_today_key(jira_calls[c].signature)] = jira_calls[c].key

\* a finished run in which a call failed before a later one succeeded, a call
\* succeeded before a later one failed, and the notification call failed
C8_Witness ==
  /\ pc = "done"
  /\ \E a, b \in 1..Len(jira_calls) :
       a < b /\ ~jira_calls[a].ok /\ jira_calls[b].ok
  /\ \E a, b \in 1..Len(jira_calls) :
       a < b /\ jira_calls[a].ok /\ ~jira_calls[b].ok
  /\ \E p \in 1..Len(posts) : ~posts[p].delivered


(***************************************************************************)
(* Sequential runs of one day: a finished run is followed by another run    *)
(* of either entry point; the tracker and created_bugs.json persist.        *)
(***************************************************************************)
\* the most issues the tracker holds when a further run is started
MaxCarried == 1

next_run ==
  /\ pc \in {"done", "crashed"}
  /\ Len(jira) <= MaxCarried
  /\ mode' \in {"cli", "graph"}
  /\ pc' = "start"
  /\ logs' = <<>>
  /\ groups' = <<>>
  /\ raw' = NoReply
  /\ findings' = NoFindings
  /\ idx' = 1
  /\ created' = <<>>
  /\ jira_calls' = <<>>
  /\ posts' = <<>>
  /\ resolvable' \in BOOLEAN
  /\ UNCHANGED <<jira, CACHE, today, workers, normalizer>>

NextRuns == Next \/ next_run

SpecRuns == Init /\ [][NextRuns]_vars


\* the issues of the tracker filed for a signature
IssuesFor(issues, sig) == {i \in 1..Len(issues) : issues[i].signature = sig}

\* C11: over sequential runs of one UTC day at most one ticket is created for
\* a signature: a recorded (day, signature) stays recorded, so seen_today
\* stays true for it, and create_issue is never called for a signature the
\* cache already holds for the day.
C11_OneTicketPerDay ==
  [][ /\ \A k \in DOMAIN CACHE : k \in DOMAIN CACHE'
      /\ Len(jira_calls') > Len(jira_calls) =>
           <<today, jira_calls'[Len(jira_calls')].signature>> \notin DOMAIN CACHE
      /\ \A i \in 1..Len(jira') : Cardinality(IssuesFor(jira', jira'[i].signature)) = 1
    ]_vars

\* a later run meets a group with errors whose ticket an earlier run filed and
\* recorded, and passes it without a create_issue call
C11_Witness ==
  \E i \in 1..Len(findings.groups) :
    LET sig == findings.groups[i].signature
    IN /\ pc = "tickets" /\ i < idx
       /\ findings.groups[i].levels.ERROR > 0
       /\ sig \notin {EarlierSig("cli"), EarlierSig("graph")}
       /\ <<today, sig>> \in DOMAIN CACHE
       /\ IssuesFor(jira, sig) # {}
       /\ jira_calls = <<>>


(***************************************************************************)
(* Concurrent ticket loops: two runs started together, or the loop of one  *)
(* run spread over workers.  Each worker takes the steps of the loop body   *)
(* for its groups in order; the steps of different workers interleave at    *)
(* the calls that read or write the shared tracker and cache file.          *)
(***************************************************************************)
NumWorkers == 2

\* the most groups with errors one worker handles
MaxTodo == 2

\* the signatures of the groups with errors
ParSigs == {compute_signature(parse_log_line(LineText(1)).msg),
            compute_signature(parse_log_line(LineText(5)).msg)}

Todo == UNION {[1..n -> ParSigs] : n \in 1..MaxTodo}

InitPar ==
  /\ mode = "cli"
  /\ pc = "tickets"
  /\ logs = <<>>
  /\ groups = <<>>
  /\ raw = NoReply
  /\ findings = NoFindings
  /\ idx = 1
  /\ created = <<>>
  /\ jira = <<>>
  /\ jira_calls = <<>>
  /\ posts = <<>>
  /\ CACHE = <<>>
  /\ today = 1
  /\ workers \in [1..NumWorkers ->
       {[todo |-> t, at |-> "seen_today", data |-> <<>>, key |-> NoJira] : t \in Todo}]
  /\ resolvable = TRUE
  /\ normalizer = NoCall

\* move to the next group of the worker's list
NextGroup(w) ==
  [w EXCEPT !.todo = Tail(w.todo),
            !.at = IF Tail(w.todo) = <<>> THEN "done" ELSE "seen_today"]

\* if seen_today(sig): continue
par_seen_today(p) ==
  /\ workers[p].at = "seen_today"
  /\ workers' = [workers EXCEPT ![p] =
       IF seen_today(Head(workers[p].todo))
       THEN NextGroup(workers[p])
       ELSE [workers[p] EXCEPT !.at = "create_issue"]]
  /\ UNCHANGED <<mode, pc, logs, groups, raw, findings, idx, created, jira,
                 jira_calls, posts, CACHE, today, resolvable,
                 normalizer>>

\* create_issue returns a key, or raises and the loop goes on
par_create_issue(p) ==
  /\ workers[p].at = "create_issue"
  /\ \/ /\ jira' = Append(jira, [signature |-> Head(workers[p].todo),
                                 title |-> Head(workers[p].todo), errors |-> 1])
        /\ workers' = [workers EXCEPT ![p].at = "mark_today",
                                      ![p].key = Key(Len(jira'))]
     \/ /\ jira' = jira
        /\ workers' = [workers EXCEPT ![p] = NextGroup(workers[p])]
  /\ UNCHANGED <<mode, pc, logs, groups, raw, findings, idx, created,
                 jira_calls, posts, CACHE, today, resolvable,
                 normalizer>>

\* mark_today, lines 23-25: data = json.loads(CACHE.read_text())
par_mark_read(p) ==
  /\ workers[p].at = "mark_today"
  /\ workers' = [workers EXCEPT ![p].at = "write_text", ![p].data = CACHE]
  /\ UNCHANGED <<mode, pc, logs, groups, raw, findings, idx, created, jira,
                 jira_calls, posts, CACHE, today, resolvable,
                 normalizer>>

\* mark_today, lines 26-27: data[key] = issue_key; CACHE.write_text(data)
par_mark_write(p) ==
  /\ workers[p].at = "write_text"
  /\ LET w == workers[p]
         k == _today_key(Head(w.todo))
     IN CACHE' = [x \in DOMAIN w.data \cup {k} |->
                    IF x = k THEN w.key ELSE w.data[x]]
  /\ workers' = [workers EXCEPT ![p] = NextGroup(workers[p])]
  /\ UNCHANGED <<mode, pc, logs, groups, raw, findings, idx, created, jira,
                 jira_calls, posts, today, resolvable,
                 normalizer>>

NextPar ==
  \E p \in 1..NumWorkers :
    \/ par_seen_today(p) \/ par_create_issue(p)
    \/ par_mark_read(p) \/ par_mark_write(p)

SpecPar == InitPar /\ [][NextPar]_vars

AllWorkersDone == \A p \in 1..NumWorkers : workers[p].at = "done"

\* C12: with the steps of the ticket loop interleaved, every signature whose
\* ticket was created ends up recorded in the dedupe cache and no signature
\* gets more than one ticket that day.
C12_ParallelSafe ==
  /\ \A i \in 1..Len(jira) : Cardinality(IssuesFor(jira, jira[i].signature)) = 1
  /\ AllWorkersDone =>
       \A i \in 1..Len(jira) : <<today, jira[i].signature>> \in DOMAIN CACHE


(***************************************************************************)
(* The Aggregator alone: group_events of either entry point applied to any  *)
(* sequence of up to MaxAggLines lines of the pool.                         *)
(***************************************************************************)
MaxAggLines == 4

AggInputs == UNION {[1..n -> LineIds] : n \in 0..MaxAggLines}

InitAgg ==
  /\ mode \in {"cli", "graph"}
  /\ pc = "read"
  /\ logs \in AggInputs
  /\ groups = <<>>
  /\ raw = NoReply
  /\ findings = NoFindings
  /\ idx = 1
  /\ created = <<>>
  /\ jira = <<>>
  /\ jira_calls = <<>>
  /\ posts = <<>>
  /\ CACHE = <<>>
  /\ today = 1
  /\ workers = <<>>
  /\ resolvable = TRUE
  /\ normalizer = NoCall

NextAgg == main_group_events \/ node_group_events

SpecAgg == InitAgg /\ [][NextAgg]_vars

\* the dict of groups after the loop has consumed lines, before the sort
group_map(lines) ==
  IF mode = "cli" THEN cli_fold(lines, 1, <<>>) ELSE graph_fold(lines, 1, <<>>)

\* the grammar of a line: timestamp, whitespace, a level of Levels in
\* brackets, whitespace, message
MatchesGrammar(line) ==
  /\ TsMatches(line)
  /\ \E lv \in Levels : \E w \in 1..Len(line) :
       LET br == <<"[">> \o LevelText(lv) \o <<"]">>
           p == Len(TsPattern) + 1
       IN /\ \A k \in p..(p + w - 1) : k <= Len(line) /\ line[k] \in SpaceSet
          /\ OccursAt(line, p + w, br)
          /\ p + w + Len(br) <= Len(line)
          /\ line[p + w + Len(br)] \in SpaceSet

WellFormedOnly(lines) == SelectSeq(lines, LAMBDA id : MatchesGrammar(LineText(id)))

\* C13: lines that do not match the grammar change nothing: the groups are
\* those of the subsequence of well-formed lines, and the counts sum to the
\* number of well-formed lines.
C13_MalformedIgnored ==
  pc = "grouped" =>
    /\ groups = group_events(WellFormedOnly(logs))
    /\ SumCounts(groups) = Len(WellFormedOnly(logs))

\* a malformed line between two well-formed lines has been aggregated
C13_Witness ==
  /\ pc = "grouped" /\ Len(logs) >= 3
  /\ MatchesGrammar(LineText(logs[1]))
  /\ ~MatchesGrammar(LineText(logs[2]))
  /\ MatchesGrammar(LineText(logs[3]))
  /\ Len(groups) = 2


\* the signature the running entry point gives a well-formed line
LineSig(id) ==
  IF mode = "cli" THEN compute_signature(parse_log_line(LineText(id)).msg)
  ELSE graph_signature(ReMatch(LineText(id)).msg)

\* the positions of the well-formed lines with this signature
PositionsOf(sig) ==
  {k \in 1..Len(logs) : MatchesGrammar(LineText(logs[k])) /\ LineSig(logs[k]) = sig}

\* the position at which a signature is first encountered
FirstSeen(sig) == CHOOSE k \in PositionsOf(sig) : \A j \in PositionsOf(sig) : k <= j

\* C14: the aggregated list is ordered by count descending, and groups of
\* equal count keep the order in which their signatures were first met.
C14_StableByCount ==
  pc = "grouped" =>
    \A i \in 1..Len(groups) : \A j \in (i + 1)..Len(groups) :
      /\ PositionsOf(groups[i].signature) # {}
      /\ PositionsOf(groups[j].signature) # {}
      /\ groups[i].count >= groups[j].count
      /\ groups[i].count = groups[j].count =>
           FirstSeen(groups[i].signature) < FirstSeen(groups[j].signature)

\* a later, more frequent signature has moved ahead of two tied ones
C14_Witness ==
  /\ pc = "grouped" /\ Len(groups) = 3
  /\ groups[1].count > groups[2].count
  /\ groups[2].count = groups[3].count
  /\ FirstSeen(groups[1].signature) > FirstSeen(groups[2].signature)


\* C15: after any prefix of the input every group of the map has count >= 1,
\* level counts >= 0 and level counts that sum to count.
C15_GroupCountsConsistent ==
  pc = "grouped" =>
    \A n \in 0..Len(logs) :
      LET m == group_map(Take(logs, n))
      IN \A i \in 1..Len(m) :
           /\ m[i].count >= 1
           /\ \A lv \in Levels : m[i].levels[lv] >= 0
           /\ m[i].levels.INFO + m[i].levels.WARN + m[i].levels.ERROR = m[i].count

\* a run whose map grows over the prefixes: groups of different levels, one
\* of them met more than once
C15_Witness ==
  /\ pc = "grouped" /\ Len(logs) = MaxAggLines
  /\ Len(group_map(Take(logs, 1))) = 1
  /\ Len(group_map(Take(logs, 2))) = 2
  /\ \E i \in 1..Len(groups) : groups[i].count >= 2 /\ groups[i].levels.ERROR >= 2
  /\ \E i \in 1..Len(groups) : groups[i].levels.INFO = 1


\* the raw lines of a signature, in input order
LinesOf(lines, sig) ==
  SelectSeq(lines, LAMBDA id : MatchesGrammar(LineText(id)) /\ LineSig(id) = sig)

\* C16: examples is exactly the first min(3, count) raw lines of the group's
\* signature in input order; it never holds more than 3 lines, and once it
\* holds 3 lines later lines of the signature leave it as it is.
C16_ExamplesAreFirstThree ==
  pc = "grouped" =>
    /\ \A i \in 1..Len(groups) :
         /\ Len(groups[i].examples) <= 3
         /\ groups[i].examples =
              Take(LinesOf(logs, groups[i].signature),
                   IF groups[i].count < 3 THEN groups[i].count ELSE 3)
    /\ \A n \in 0..Len(logs) :
         LET m == group_map(Take(logs, n))
         IN \A k \in 1..Len(m) : Len(m[k].examples) = 3 =>
              \E i \in 1..Len(groups) :
                /\ groups[i].signature = m[k].signature
                /\ groups[i].examples = m[k].examples

\* a signature met four times, its fourth line differing from its first
C16_Witness ==
  /\ pc = "grouped"
  /\ \E i \in 1..Len(groups) :
       /\ groups[i].count = 4
       /\ Len(groups[i].examples) = 3
       /\ logs[4] # groups[i].examples[1]


\* the reply holds no root cause for the signature
NoAnnotation(sig) ==
  \A k \in 1..Len(raw.groups) :
    raw.groups[k].signature = sig => raw.groups[k].probable_root_cause = <<>>

\* whether token occurs in text
Names(text, token) == \E p \in 1..Len(text) : OccursAt(text, p, token)

\* C17: an aggregated group without annotation whose examples hold exception
\* tokens is reported with probable_root_cause equal to the distinct tokens,
\* in first-seen order, joined by commas, and a recommendation naming the
\* first token.
C17_FallbackFillsRootCause ==
  ReportWritten =>
    \A i \in 1..Len(groups) :
      LET exs == ExceptionsOf(groups[i].examples, 1, <<>>)
      IN NoAnnotation(groups[i].signature) /\ exs # <<>> =>
           \E k \in 1..Len(findings.groups) :
             /\ findings.groups[k].signature = groups[i].signature
             /\ findings.groups[k].probable_root_cause = JoinComma(exs)
             /\ Names(findings.groups[k].recommendation, exs[1])


\* the tier of a group in the ranking (ERROR, then WARN, then INFO) and the
\* count it is ranked by within its tier
Tier(g) ==
  IF g.levels.ERROR > 0 THEN 1
  ELSE IF g.levels.WARN > 0 THEN 2
  ELSE IF g.levels.INFO > 0 THEN 3 ELSE 4

TierCount(g) ==
  IF g.levels.ERROR > 0 THEN g.levels.ERROR
  ELSE IF g.levels.WARN > 0 THEN g.levels.WARN ELSE g.levels.INFO

RanksBefore(g, h) ==
  Tier(g) < Tier(h) \/ (Tier(g) = Tier(h) /\ TierCount(g) >= TierCount(h))

\* whether list is a tiered ranking of up to 3 signatures of the groups gs
IsTopSignatures(list, gs) ==
  LET ranked == {i \in 1..Len(gs) : Tier(gs[i]) < 4}
  IN /\ Len(list) = (IF Cardinality(ranked) < 3 THEN Cardinality(ranked) ELSE 3)
     /\ \E f \in [1..Len(list) -> ranked] :
          /\ \A k \in 1..Len(list) : gs[f[k]].signature = list[k]
          /\ \A k, l \in 1..Len(list) : k < l =>
               /\ list[k] # list[l]
               /\ RanksBefore(gs[f[k]], gs[f[l]])
          /\ \A k \in 1..Len(list) : \A j \in ranked :
               (\A l \in 1..Len(list) : gs[j].signature # list[l]) =>
                 RanksBefore(gs[f[k]], gs[j])

\* C18: summary.top_signatures of the report is the tiered ranking of the
\* report's groups (ERROR, then WARN, then INFO counts, at most 3), never the
\* value of the reply's summary.
C18_TopSignaturesFromGroups ==
  ReportWritten =>
    /\ findings.summary.top_signatures.kind = "list"
    /\ IsTopSignatures(findings.summary.top_signatures.val, findings.groups)


\* C19: when none of the input paths can be read the run aborts before the
\* aggregation: no aggregation, text-generation call, ticket or notification
\* stage is executed.
C19_NoInputIsFatal ==
  ~resolvable =>
    /\ pc \in {"start", "crashed"}
    /\ groups = <<>>
    /\ raw = NoReply
    /\ jira_calls = <<>>
    /\ posts = <<>>


\* the groups without the "exceptions" a later stage added
WithoutExceptions(gs) == [i \in 1..Len(gs) |-> [gs[i] EXCEPT !.exceptions = <<>>]]

Normal(msg) == CollapseWs(StripPunct(StripDigits(StripPaths(Lower(msg)))))

MsgOf(id) == ReMatch(LineText(id)).msg

\* the positions of the well-formed lines whose message differs from that of
\* line k only in volatile parts
SameEvent(k) ==
  {j \in 1..Len(logs) : /\ MatchesGrammar(LineText(logs[j]))
                        /\ Normal(MsgOf(logs[j])) = Normal(MsgOf(logs[k]))}

\* C21: in both entry points, well-formed lines whose messages differ only in
\* paths, digits, letter case or punctuation are counted in one group.
C21_VolatilePartsIgnored ==
  pc = "grouped" =>
    \A k \in 1..Len(logs) : MatchesGrammar(LineText(logs[k])) =>
      \E i \in 1..Len(groups) : groups[i].count >= Cardinality(SameEvent(k))


\* C22: in one run create_issue is called at most once per report group, and
\* only for a group with ERROR count > 0 whose signature the cache does not
\* hold for today; the cache is written only together with such a call, so a
\* group without ERROR events causes neither.
C22_OneCallPerQualifyingGroup ==
  [][ /\ \A c, d \in 1..Len(jira_calls') :
           /\ findings'.groups[jira_calls'[c].group].levels.ERROR > 0
           /\ jira_calls'[c].signature = findings'.groups[jira_calls'[c].group].signature
           /\ (c # d => jira_calls'[c].group # jira_calls'[d].group)
      /\ Len(jira_calls') > Len(jira_calls) =>
           /\ jira_calls'[Len(jira_calls')].group = idx
           /\ <<today, jira_calls'[Len(jira_calls')].signature>> \notin DOMAIN CACHE
      /\ CACHE' # CACHE =>
           /\ Len(jira_calls') = Len(jira_calls) + 1
           /\ jira_calls'[Len(jira_calls')].ok
           /\ DOMAIN CACHE' =
                DOMAIN CACHE \cup {<<today, findings.groups[idx].signature>>}
    ]_vars

\* a finished run whose report held a group without ERROR events, a group
\* already recorded for today and a group a ticket was created for
C22_Witness ==
  /\ pc = "done"
  /\ \E i \in 1..Len(findings.groups) :
       findings.groups[i].levels.ERROR = 0 /\ ~Attempted(i)
  /\ \E i \in 1..Len(findings.groups) :
       findings.groups[i].levels.ERROR > 0 /\ ~Attempted(i)
  /\ \E c \in 1..Len(jira_calls) : jira_calls[c].ok


\* the order read_logs, group_events, analyze_with_llm, create_jira_tickets,
\* send_slack_summary, END as moves of the position
StageOrder ==
  {<<"start", "read">>, <<"read", "grouped">>, <<"grouped", "tickets">>,
   <<"tickets", "slack">>, <<"slack", "done">>}

C24_ReportNotFedBack ==
  [][(pc = "tickets" \/ pc = "slack") =>
       /\ logs' = logs /\ groups' = groups /\ raw' = raw /\ findings' = findings
       /\ Len(created') >= Len(created) /\ SubSeq(created', 1, Len(created)) = created
       /\ Len(posts') >= Len(posts) /\ SubSeq(posts', 1, Len(posts)) = posts
       /\ \A k \in DOMAIN CACHE : (k \in DOMAIN CACHE' /\ CACHE[k] = CACHE'[k])
    ]_vars

\* both stages have run with a created ticket, a failed create_issue call, a
\* group without ERROR events and a post that was not delivered
C24_Witness ==
  /\ pc = "done"
  /\ \E c \in 1..Len(jira_calls) : jira_calls[c].ok
  /\ \E c \in 1..Len(jira_calls) : ~jira_calls[c].ok
  /\ \E i \in 1..Len(findings.groups) : findings.groups[i].levels.ERROR = 0
  /\ Len(posts) = 1 /\ ~posts[1].delivered


\* the report of the command-line agent has been built from a parsed reply
Extracted == mode = "cli" /\ ReportWritten /\ raw.kind = "object"

\* C25: the Fallback Extractor changes a group only when its
\* probable_root_cause is empty and its examples hold an exception token: it
\* never overwrites a root cause or a recommendation that is not empty, it
\* leaves both as they were when no token is found, and it touches no other
\* field.
C25_FallbackOnlyFillsEmpty ==
  Extracted =>
    /\ Len(findings.groups) = Len(raw.groups)
    /\ \A k \in 1..Len(raw.groups) :
         LET before == raw.groups[k]
             after == findings.groups[k]
             exs == ExceptionsOf(before.examples, 1, <<>>)
         IN /\ [after EXCEPT !.probable_root_cause = <<>>, !.recommendation = <<>>]
                 = [before EXCEPT !.probable_root_cause = <<>>, !.recommendation = <<>>]
            /\ before.probable_root_cause # <<>> => after = before
            /\ before.recommendation # <<>> =>
                 after.recommendation = before.recommendation
            /\ exs = <<>> => after = before

\* a report in which the extractor filled the root cause of a group and kept
\* the recommendation the reply gave for it
C25_Witness ==
  /\ Extracted
  /\ \E k \in 1..Len(raw.groups) :
       /\ raw.groups[k].probable_root_cause = <<>>
       /\ raw.groups[k].recommendation # <<>>
       /\ findings.groups[k].probable_root_cause # <<>>


\* the extractor has nothing left to do on a group: a root cause is given, or
\* the examples hold no exception token
RootCauseSettled(g) ==
  g.probable_root_cause # <<>> \/ ExceptionsOf(g.examples, 1, <<>>) = <<>>

\* C26: the groups only move forward: they are aggregated once, the report
\* is built once, the Fallback Extractor has run on every group of the report
\* when the report is written, and no later stage changes a field of a
\* report group.
C26_GroupsMoveForward ==
  [][ /\ (pc # "read" => groups' = groups \/ groups' = with_exceptions(groups))
      /\ (ReportWritten => findings' = findings)
      /\ (~ReportWritten /\ ReportWritten' =>
            \A k \in 1..Len(findings'.groups) : RootCauseSettled(findings'.groups[k]))
    ]_vars


\* C27: in every report that reaches the ticket and notification stages
\* summary.error_rate is a number between 0 and 1, whatever the reply held.
C27_ErrorRateInRange ==
  pc \in {"tickets", "slack"} =>
    /\ findings.summary.error_rate.kind = "num"
    /\ 0 <= findings.summary.error_rate.val
    /\ findings.summary.error_rate.val <= 1000


(***************************************************************************)
(* The Normalizer alone: compute_signature applied to messages put          *)
(* together from up to MaxPieces pieces: a capitalised word, a path, two    *)
(* words joined by punctuation, a number, and a long run without letters.   *)
(***************************************************************************)
MaxPieces == 5

Pieces == <<<<"A","b"," ">>, <<"/","x","1"," ">>, <<"c","-","d"," ">>, <<"4","2"," ">>, <<"0","1","2","3","4","5","6","7","8","9",":",";","=","+","*","#","@">>>>

RECURSIVE Concat(_)
Concat(ps) == IF ps = <<>> THEN <<>> ELSE Pieces[Head(ps)] \o Concat(Tail(ps))

Messages == {Concat(ps) : ps \in UNION {[1..n -> 1..Len(Pieces)] : n \in 0..MaxPieces}}

InitSig ==
  /\ mode = "cli"
  /\ pc = "read"
  /\ logs = <<>>
  /\ groups = <<>>
  /\ raw = NoReply
  /\ findings = NoFindings
  /\ idx = 1
  /\ created = <<>>
  /\ jira = <<>>
  /\ jira_calls = <<>>
  /\ posts = <<>>
  /\ CACHE = <<>>
  /\ today = 1
  /\ workers = <<>>
  /\ resolvable = TRUE
  /\ normalizer \in {[msg |-> m, sig |-> <<>>, at |-> "call"] : m \in Messages}

\* sig = compute_signature(msg)
normalize ==
  /\ normalizer.at = "call"
  /\ normalizer' = [normalizer EXCEPT !.sig = compute_signature(normalizer.msg),
                                      !.at = "returned"]
  /\ UNCHANGED <<mode, pc, logs, groups, raw, findings, idx, created, jira,
                 jira_calls, posts, CACHE, today, workers, resolvable>>

NextSig == normalize

SpecSig == InitSig /\ [][NextSig]_vars

\* the tokens left of a message after removing paths, digits and non-letters
TokensLeft(msg) == Split(Normal(msg))

SpacesIn(s) == Cardinality({i \in 1..Len(s) : s[i] = " "})

\* C28: compute_signature returns, for every message, either 1 to 4 tokens of
\* lowercase letters joined by single spaces, which are the first 4 tokens
\* left after removing paths, digits and non-letters, or, when no token is
\* left, exactly the first 32 characters of the message.
C28_SignatureShape ==
  normalizer.at = "returned" =>
    LET msg == normalizer.msg
        out == normalizer.sig
    IN IF TokensLeft(msg) # <<>>
       THEN /\ out # <<>>
            /\ \A i \in 1..Len(out) : out[i] \in LowerSet \cup {" "}
            /\ out[1] # " " /\ out[Len(out)] # " "
            /\ \A i \in 1..(Len(out) - 1) : ~(out[i] = " " /\ out[i + 1] = " ")
            /\ SpacesIn(out) <= 3
            /\ Split(out) = Take(TokensLeft(msg), 4)
       ELSE /\ Len(out) = (IF Len(msg) < 32 THEN Len(msg) ELSE 32)
            /\ out = SubSeq(msg, 1, Len(out))

\* a message with a path, a number, capitals and more than 4 tokens has been
\* given its signature of 4 tokens
C28_Witness ==
  /\ normalizer.at = "returned"
  /\ Len(TokensLeft(normalizer.msg)) > 4
  /\ \E i \in 1..Len(normalizer.msg) : normalizer.msg[i] = "/"
  /\ \E i \in 1..Len(normalizer.msg) : normalizer.msg[i] \in DigitSet
  /\ SpacesIn(normalizer.sig) = 3


\* a step on which create_issue was called
NewCall == Len(jira_calls') = Len(jira_calls) + 1

LastCall == jira_calls'[Len(jira_calls')]

\* C29: the cache gets a signature only on a step on which create_issue
\* returned for it; a create_issue call that raises leaves the cache as it
\* was, without the signature, and a loop that meets a group with errors
\* whose signature the cache does not hold for today, in this run or a later
\* one, calls create_issue for it.
C29_CacheOnlyAfterSuccess ==
  [][ /\ CACHE' # CACHE =>
           /\ NewCall /\ LastCall.ok
           /\ CACHE' = mark_today(LastCall.signature, LastCall.key)
      /\ NewCall /\ ~LastCall.ok =>
           /\ CACHE' = CACHE
           /\ <<today, LastCall.signature>> \notin DOMAIN CACHE'
      /\ (/\ pc = "tickets" /\ idx' = idx + 1
          /\ findings.groups[idx].levels.ERROR > 0
          /\ <<today, findings.groups[idx].signature>> \notin DOMAIN CACHE) =>
           NewCall /\ LastCall.signature = findings.groups[idx].signature
    ]_vars

\* in a run after one that filed a ticket, create_issue has raised for a
\* signature and returned for another: the cache holds the second only
C29_Witness ==
  /\ pc = "done"
  /\ \E i \in 1..Len(jira) :
       /\ jira[i].signature \notin {EarlierSig("cli"), EarlierSig("graph")}
       /\ \A c \in 1..Len(jira_calls) : jira_calls[c].signature # jira[i].signature
  /\ \E c \in 1..Len(jira_calls) :
       /\ ~jira_calls[c].ok
       /\ <<today, jira_calls[c].signature>> \notin DOMAIN CACHE
  /\ \E c \in 1..Len(jira_calls) :
       /\ jira_calls[c].ok
       /\ <<today, jira_calls[c].signature>> \in DOMAIN CACHE


\* the signatures of the well-formed lines of the input
SigsOfInput == {LineSig(logs[k]) : k \in {j \in 1..Len(logs) : MatchesGrammar(LineText(logs[j]))}}

\* C30: the groups aggregation returns have pairwise distinct signatures;
\* every signature of a well-formed input line labels exactly one group, no
\* group carries another signature, and a group's count is the number of
\* well-formed lines with its signature.
C30_OneGroupPerSignature ==
  pc = "grouped" =>
    /\ \A i, j \in 1..Len(groups) :
         groups[i].signature = groups[j].signature => i = j
    /\ {groups[i].signature : i \in 1..Len(groups)} = SigsOfInput
    /\ \A i \in 1..Len(groups) :
         groups[i].count = Cardinality(PositionsOf(groups[i].signature))

\* two signatures interleaved, one of them met three times among four lines
C30_Witness ==
  /\ pc = "grouped" /\ Len(logs) = 4 /\ Len(groups) = 2
  /\ LineSig(logs[1]) = LineSig(logs[3])
  /\ LineSig(logs[1]) = LineSig(logs[4])
  /\ LineSig(logs[1]) # LineSig(logs[2])
  /\ \A k \in 1..4 : MatchesGrammar(LineText(logs[k]))
  /\ groups[1].count = 3 /\ groups[2].count = 1

=============================================================================
